---------------------------- MODULE Spec2Model ----------------------------
(***************************************************************************)
(* zCore: the physical-frame allocator, the kernel heap with its rescue    *)
(* (src/zCore/src/memory.rs) and the object syscalls                       *)
(* (src/zircon-syscall/src/object.rs), as one state machine.               *)
(*                                                                         *)
(* The memory half and the syscall half share no state; MemSpec runs the   *)
(* first, SysSpec the second.  A kernel panic (unwrap on None, a failed    *)
(* assert!, unimplemented!, an index out of bounds) halts the kernel:      *)
(* panicked becomes TRUE and no operation runs after it.                   *)
(***************************************************************************)
EXTENDS Integers, Sequences, FiniteSets, TLC

(***************************************************************************)
(* Bounds of the model.                                                    *)
(***************************************************************************)
\* Physical frames are 0 .. MaxFrame-1.
MaxFrame == 4
\* Iterations of the rescue loop: `for _ in 0..16384` (memory.rs:88), scaled.
RESCUE_FRAMES == 3
\* Entries of the rescue's run table: `[(0, 0); 32]` (memory.rs:85), scaled.
MAX_RUNS == 2
\* Pages of the static boot arena: KERNEL_HEAP_SIZE (memory.rs:20), scaled.
HeapPages == 1

(***************************************************************************)
(* Constants of memory.rs.                                                 *)
(***************************************************************************)
MEMORY_OFFSET == 0
PAGE_SIZE == 4096
\* 0xffff8000_00000000 in the source; TLC's integers are 32 bits wide, so the
\* window base is a page-aligned address above every physical address of the
\* model.
PHYSICAL_MEMORY_OFFSET == 256 * PAGE_SIZE
\* 0xffffff00_00000000 in the source: the kernel image, above the window.
KERNEL_OFFSET == 512 * PAGE_SIZE
\* The two 64-bit addresses as the source has them, as four 16-bit words, low
\* word first: 0xffffff00_00000000 and 0xffff8000_00000000.
KERNEL_OFFSET_64 == <<0, 0, 65280, 65535>>
PHYSICAL_MEMORY_OFFSET_64 == <<0, 0, 32768, 65535>>
\* (x >> 39) & 0o777 on that representation: bit 39 is bit 7 of the third word.
Pm4Index(x) == ((x[3] \div 128) + x[4] * 512) % 512
KERNEL_PM4 == Pm4Index(KERNEL_OFFSET_64)
PHYSICAL_MEMORY_PM4 == Pm4Index(PHYSICAL_MEMORY_OFFSET_64)
KERNEL_HEAP_SIZE == HeapPages * PAGE_SIZE
PMEM_BASE == PHYSICAL_MEMORY_OFFSET

\* Option<usize>::None of hal_frame_alloc.
None == -1
\* No result yet: the context is inside a call, or made none.
NoRet == -2

Frames == 0 .. (MaxFrame - 1)
Ctx == {"c1", "c2"}
NoOwner == "none"
Boot == "boot"

\* rboot's MemoryType: CONVENTIONAL and one representative of the others.
MemoryTypes == {"CONVENTIONAL", "RESERVED"}

\* One descriptor of the firmware memory map (page aligned phys_start).
Descriptor(s, n, t) == [phys_start |-> s * PAGE_SIZE, page_count |-> n, ty |-> t]

\* The memory maps the boot loader may pass: two descriptors, each of either
\* type; they are disjoint, adjacent or overlapping.
MemoryMaps ==
    {<<Descriptor(0, n1, t1), Descriptor(MaxFrame - 2, n2, t2)>> :
        n1 \in {1, MaxFrame - 1}, n2 \in {1, 2},
        t1 \in MemoryTypes, t2 \in MemoryTypes}

\* Page counts a heap allocation may ask for.
ReqPages == {1, 2}

VARIABLES
    memory_map,        \* boot_info.memory_map
    FRAME_ALLOCATOR,   \* the bitmap: the set of frame ids whose bit is set (free)
    frameLock,         \* owner of FRAME_ALLOCATOR's spin mutex
    boot,              \* position of init_frame_allocator
    region,            \* index of the next descriptor init_frame_allocator reads
    pc,                \* position of each context
    held,              \* ghost: the addresses each context got and has not freed
    ret,               \* last result each context received
    arg,               \* argument of the call each context is in
    heapLock,          \* owner of HEAP_ALLOCATOR's lock
    HEAP_ALLOCATOR,    \* the heap's free arenas, <<addr, len>>
    addrs,             \* enlarge_heap: the run table
    addr_len,          \* enlarge_heap: runs in use
    iter,              \* enlarge_heap: loop counter
    taken,             \* ghost: addresses the running rescue took
    registered,        \* ghost: arenas registered by rescues, <<addr, len>>
    panicked,          \* the kernel panicked
    panicWhy,          \* which panic
    handed,            \* ghost: addresses returned since init, no dealloc since
    runValid           \* ghost: init is done and no dealloc happened since

VARIABLES
    name,              \* KObject name of each object
    debug_addr,        \* Process::debug_addr
    break_on_load,     \* Process::dyn_break_on_load
    vdso_code_start,   \* the process VMAR's vdso_code_start (None when unset)
    fsbase,            \* self.regs.fsbase of the calling thread
    userMem,           \* what the call in `last` wrote through its user pointer
    signal,            \* signal state of each object
    regs,              \* pending wait-async registrations, oldest first
    portq,             \* the port's packet queue, oldest first
    waiter,            \* the wait-one call in flight
    last               \* the call at the syscall boundary: arguments and result

VARIABLES
    pt,                \* hal_pt_map_kernel: the table being prepared
    current            \* hal_pt_map_kernel: the active table

ptvars == <<pt, current>>

sysvars == <<name, debug_addr, break_on_load, vdso_code_start, fsbase,
             userMem, signal, regs, portq, waiter, last>>

memvars == <<memory_map, FRAME_ALLOCATOR, frameLock, boot, region, pc, held,
             ret, arg, heapLock, HEAP_ALLOCATOR, addrs, addr_len, iter, taken,
             registered, panicked, panicWhy, handed, runValid>>

\* The memory half without the panic flag, which the syscall layer shares.
memstate == <<memory_map, FRAME_ALLOCATOR, frameLock, boot, region, pc, held,
              ret, arg, heapLock, HEAP_ALLOCATOR, addrs, addr_len, iter, taken,
              registered, handed, runValid>>

vars == <<memvars, sysvars, ptvars>>

(***************************************************************************)
(* The state after construction.                                           *)
(***************************************************************************)
\* FRAME_ALLOCATOR = FrameAlloc::DEFAULT (no bit set); the heap holds the
\* static arena init_heap installs.
MemInitWith(maps) ==
    /\ memory_map \in maps
    /\ FRAME_ALLOCATOR = {}
    /\ frameLock = NoOwner
    /\ boot = "start"
    /\ region = 1
    /\ pc = [c \in Ctx |-> "idle"]
    /\ held = [c \in Ctx |-> {}]
    /\ ret = [c \in Ctx |-> NoRet]
    /\ arg = [c \in Ctx |-> 0]
    /\ heapLock = NoOwner
    /\ HEAP_ALLOCATOR = {<<KERNEL_OFFSET, KERNEL_HEAP_SIZE>>}
    /\ addrs = [i \in 0 .. (MAX_RUNS - 1) |-> <<0, 0>>]
    /\ addr_len = 0
    /\ iter = 0
    /\ taken = {}
    /\ registered = {}
    /\ panicked = FALSE
    /\ panicWhy = "none"
    /\ handed = {}
    /\ runValid = FALSE

\* No page table is being prepared.
NoTable == <<>>
PtNone == pt = NoTable /\ current = NoTable

heaplocals == <<addrs, addr_len, iter, taken, registered>>
heapvars == <<heapLock, HEAP_ALLOCATOR, addrs, addr_len, iter, taken, registered>>
bootvars == <<memory_map, boot, region>>

(***************************************************************************)
(* init_frame_allocator                                                    *)
(***************************************************************************)
\* let mut ba = FRAME_ALLOCATOR.lock();
init_frame_allocator_lock ==
    /\ ~panicked
    /\ boot = "start"
    /\ frameLock = NoOwner
    /\ frameLock' = Boot
    /\ boot' = "loop"
    /\ region' = 1
    /\ UNCHANGED <<memory_map, FRAME_ALLOCATOR, pc, held, ret, arg, heapvars,
                   panicked, panicWhy, handed, runValid>>
    /\ UNCHANGED <<sysvars, ptvars>>

InsertRegion_AnyType(ba, r) ==
    LET start_frame == r.phys_start \div PAGE_SIZE
        end_frame == start_frame + r.page_count
    IN  ba \cup {f \in Frames : start_frame <= f /\ f < end_frame}

\* `if region.ty == MemoryType::CONVENTIONAL { ba.insert(start_frame..end_frame) }`
InsertRegion(ba, r) ==
    IF r.ty = "CONVENTIONAL"
    THEN LET start_frame == r.phys_start \div PAGE_SIZE
             end_frame == start_frame + r.page_count
         IN  ba \cup {f \in Frames : start_frame <= f /\ f < end_frame}
    ELSE ba

\* One iteration of `for region in boot_info.memory_map`.
init_frame_allocator_region ==
    /\ ~panicked
    /\ boot = "loop"
    /\ region <= Len(memory_map)
    /\ FRAME_ALLOCATOR' = InsertRegion(FRAME_ALLOCATOR, memory_map[region])
    /\ region' = region + 1
    /\ UNCHANGED <<memory_map, frameLock, boot, pc, held, ret, arg, heapvars,
                   panicked, panicWhy, handed, runValid>>
    /\ UNCHANGED <<sysvars, ptvars>>

\* The loop is over: the guard is dropped at the end of the function.
init_frame_allocator_end ==
    /\ ~panicked
    /\ boot = "loop"
    /\ region > Len(memory_map)
    /\ frameLock' = NoOwner
    /\ boot' = "done"
    /\ handed' = {}
    /\ runValid' = TRUE
    /\ UNCHANGED <<memory_map, FRAME_ALLOCATOR, region, pc, held, ret, arg,
                   heapvars, panicked, panicWhy>>
    /\ UNCHANGED <<sysvars, ptvars>>

(***************************************************************************)
(* hal_frame_alloc / hal_frame_dealloc                                     *)
(***************************************************************************)
\* FRAME_ALLOCATOR.lock().alloc().map(|id| id * PAGE_SIZE + MEMORY_OFFSET):
\* the results the call may have and the bitmap each leaves.  The bitmap gives
\* no ordering guarantee: any free frame may be the one handed out.
FrameAllocOutcomes_NoMark ==
    IF FRAME_ALLOCATOR = {}
    THEN {[ret |-> None, ba |-> FRAME_ALLOCATOR]}
    ELSE {[ret |-> id * PAGE_SIZE + MEMORY_OFFSET, ba |-> FRAME_ALLOCATOR] :
            id \in FRAME_ALLOCATOR}

FrameAllocOutcomes ==
    IF FRAME_ALLOCATOR = {}
    THEN {[ret |-> None, ba |-> FRAME_ALLOCATOR]}
    ELSE {[ret |-> id * PAGE_SIZE + MEMORY_OFFSET,
           ba |-> FRAME_ALLOCATOR \ {id}] : id \in FRAME_ALLOCATOR}

\* Ghost bookkeeping of one result of hal_frame_alloc.
Handed(r) == IF runValid /\ r # None THEN handed \cup {r} ELSE handed

\* hal_frame_alloc takes the lock.
hal_frame_alloc_lock(c) ==
    /\ ~panicked
    /\ pc[c] = "idle"
    /\ frameLock = NoOwner
    /\ frameLock' = c
    /\ pc' = [pc EXCEPT ![c] = "frame_alloc"]
    /\ ret' = [ret EXCEPT ![c] = NoRet]
    /\ UNCHANGED <<bootvars, FRAME_ALLOCATOR, held, arg, heapvars,
                   panicked, panicWhy, handed, runValid>>
    /\ UNCHANGED <<sysvars, ptvars>>

\* hal_frame_alloc allocates, drops the guard and returns.
hal_frame_alloc(c) ==
    /\ ~panicked
    /\ pc[c] = "frame_alloc"
    /\ \E o \in FrameAllocOutcomes :
        /\ FRAME_ALLOCATOR' = o.ba
        /\ ret' = [ret EXCEPT ![c] = o.ret]
        /\ held' = [held EXCEPT ![c] = IF o.ret = None THEN @ ELSE @ \cup {o.ret}]
        /\ handed' = Handed(o.ret)
    /\ frameLock' = NoOwner
    /\ pc' = [pc EXCEPT ![c] = "idle"]
    /\ UNCHANGED <<bootvars, arg, heapvars, panicked, panicWhy, runValid>>
    /\ UNCHANGED <<sysvars, ptvars>>

\* hal_frame_dealloc(target) takes the lock; target was returned by
\* hal_frame_alloc to this context and not freed since (the caller contract).
hal_frame_dealloc_lock(c) ==
    /\ ~panicked
    /\ pc[c] = "idle"
    /\ frameLock = NoOwner
    /\ \E target \in held[c] : arg' = [arg EXCEPT ![c] = target]
    /\ frameLock' = c
    /\ pc' = [pc EXCEPT ![c] = "frame_dealloc"]
    /\ ret' = [ret EXCEPT ![c] = NoRet]
    /\ UNCHANGED <<bootvars, FRAME_ALLOCATOR, held, heapvars,
                   panicked, panicWhy, handed, runValid>>
    /\ UNCHANGED <<sysvars, ptvars>>

\* .dealloc((*target - MEMORY_OFFSET) / PAGE_SIZE), then the guard is dropped.
hal_frame_dealloc(c) ==
    /\ ~panicked
    /\ pc[c] = "frame_dealloc"
    /\ FRAME_ALLOCATOR' =
         FRAME_ALLOCATOR \cup {(arg[c] - MEMORY_OFFSET) \div PAGE_SIZE}
    /\ held' = [held EXCEPT ![c] = @ \ {arg[c]}]
    /\ frameLock' = NoOwner
    /\ pc' = [pc EXCEPT ![c] = "idle"]
    /\ runValid' = FALSE
    /\ handed' = {}
    /\ arg' = [arg EXCEPT ![c] = 0]
    /\ UNCHANGED <<bootvars, ret, heapvars, panicked, panicWhy>>
    /\ UNCHANGED <<sysvars, ptvars>>


(***************************************************************************)
(* HEAP_ALLOCATOR: LockedHeapWithRescue::new(enlarge_heap)                 *)
(***************************************************************************)
\* inner.alloc(layout) for n pages: the arenas it may leave, one per arena
\* that is large enough; the empty set when the allocation fails.
HeapAllocOutcomes(heap, n) ==
    {[addr |-> a[1],
      heap |-> (heap \ {a}) \cup
               (IF a[2] > n * PAGE_SIZE
                THEN {<<a[1] + n * PAGE_SIZE, a[2] - n * PAGE_SIZE>>}
                ELSE {})] :
        a \in {b \in heap : b[2] >= n * PAGE_SIZE}}

\* GlobalAlloc::alloc: self.inner.lock()
heap_alloc_lock(c) ==
    /\ ~panicked
    /\ pc[c] = "idle"
    /\ heapLock = NoOwner
    /\ heapLock' = c
    /\ \E n \in ReqPages : arg' = [arg EXCEPT ![c] = n]
    /\ pc' = [pc EXCEPT ![c] = "heap_alloc"]
    /\ ret' = [ret EXCEPT ![c] = NoRet]
    /\ UNCHANGED <<bootvars, FRAME_ALLOCATOR, frameLock, held,
                   HEAP_ALLOCATOR, heaplocals, panicked, panicWhy, handed,
                   runValid>>
    /\ UNCHANGED <<sysvars, ptvars>>

\* match inner.alloc(layout): Ok returns; Err calls the rescue, whose locals
\* start as `addrs = [(0, 0); 32]`, `addr_len = 0`.
heap_alloc(c) ==
    /\ ~panicked
    /\ pc[c] = "heap_alloc"
    /\ LET outs == HeapAllocOutcomes(HEAP_ALLOCATOR, arg[c])
       IN  IF outs # {}
           THEN /\ \E o \in outs :
                     /\ HEAP_ALLOCATOR' = o.heap
                     /\ ret' = [ret EXCEPT ![c] = o.addr]
                /\ heapLock' = NoOwner
                /\ pc' = [pc EXCEPT ![c] = "idle"]
                /\ arg' = [arg EXCEPT ![c] = 0]
                /\ UNCHANGED heaplocals
           ELSE /\ pc' = [pc EXCEPT ![c] = "enlarge_heap"]
                /\ addrs' = [i \in 0 .. (MAX_RUNS - 1) |-> <<0, 0>>]
                /\ addr_len' = 0
                /\ iter' = 0
                /\ taken' = {}
                /\ UNCHANGED <<heapLock, HEAP_ALLOCATOR, ret, arg, registered>>
    /\ UNCHANGED <<bootvars, FRAME_ALLOCATOR, frameLock, held, panicked,
                   panicWhy, handed, runValid>>
    /\ UNCHANGED <<sysvars, ptvars>>

(***************************************************************************)
(* enlarge_heap                                                            *)
(***************************************************************************)
\* The body of the loop after `let va = va_offset + page`: the run table, the
\* number of runs, and whether `addrs[addr_len] = ...` indexed out of bounds.
Coalesce_AddrKept(tbl, n, va) ==
    IF n > 0 /\ tbl[n - 1][1] - PAGE_SIZE = va
    THEN [addrs |-> [tbl EXCEPT ![n - 1] = <<@[1], @[2] + PAGE_SIZE>>],
          addr_len |-> n, oob |-> FALSE]
    ELSE IF n >= MAX_RUNS
    THEN [addrs |-> tbl, addr_len |-> n, oob |-> TRUE]
    ELSE [addrs |-> [tbl EXCEPT ![n] = <<va, PAGE_SIZE>>],
          addr_len |-> n + 1, oob |-> FALSE]

Coalesce(tbl, n, va) ==
    IF n > 0 /\ tbl[n - 1][1] - PAGE_SIZE = va
    THEN [addrs |-> [tbl EXCEPT ![n - 1] = <<@[1] - PAGE_SIZE, @[2] + PAGE_SIZE>>],
          addr_len |-> n, oob |-> FALSE]
    ELSE IF n >= MAX_RUNS
    THEN [addrs |-> tbl, addr_len |-> n, oob |-> TRUE]
    ELSE [addrs |-> [tbl EXCEPT ![n] = <<va, PAGE_SIZE>>],
          addr_len |-> n + 1, oob |-> FALSE]

\* One iteration begins: hal_frame_alloc() takes the frame lock.
enlarge_heap_lock(c) ==
    /\ ~panicked
    /\ pc[c] = "enlarge_heap"
    /\ iter < RESCUE_FRAMES
    /\ frameLock = NoOwner
    /\ frameLock' = c
    /\ pc' = [pc EXCEPT ![c] = "enlarge_heap_alloc"]
    /\ UNCHANGED <<bootvars, FRAME_ALLOCATOR, held, ret, arg, heapvars,
                   panicked, panicWhy, handed, runValid>>
    /\ UNCHANGED <<sysvars, ptvars>>

enlarge_heap_frame_GuardKept(c) ==
    /\ ~panicked
    /\ pc[c] = "enlarge_heap_alloc"
    /\ frameLock' = c
    /\ \E o \in FrameAllocOutcomes :
        /\ FRAME_ALLOCATOR' = o.ba
        /\ handed' = Handed(o.ret)
        /\ ret' = [ret EXCEPT ![c] = o.ret]
        /\ IF o.ret = None
           THEN /\ panicked' = TRUE
                /\ panicWhy' = "unwrap"
                /\ pc' = [pc EXCEPT ![c] = "panic"]
                /\ UNCHANGED <<addrs, addr_len, iter, taken>>
           ELSE LET r == Coalesce(addrs, addr_len, PMEM_BASE + o.ret)
                IN  /\ taken' = taken \cup {o.ret}
                    /\ addrs' = r.addrs
                    /\ addr_len' = r.addr_len
                    /\ IF r.oob
                       THEN /\ panicked' = TRUE
                            /\ panicWhy' = "index"
                            /\ pc' = [pc EXCEPT ![c] = "panic"]
                            /\ UNCHANGED iter
                       ELSE /\ iter' = iter + 1
                            /\ pc' = [pc EXCEPT ![c] = "enlarge_heap"]
                            /\ UNCHANGED <<panicked, panicWhy>>
    /\ UNCHANGED <<bootvars, held, arg, heapLock, HEAP_ALLOCATOR, registered,
                   runValid>>
    /\ UNCHANGED <<sysvars, ptvars>>

\* hal_frame_alloc().unwrap() and the rest of the iteration.
enlarge_heap_frame(c) ==
    /\ ~panicked
    /\ pc[c] = "enlarge_heap_alloc"
    /\ frameLock' = NoOwner
    /\ \E o \in FrameAllocOutcomes :
        /\ FRAME_ALLOCATOR' = o.ba
        /\ handed' = Handed(o.ret)
        /\ ret' = [ret EXCEPT ![c] = o.ret]
        /\ IF o.ret = None
           THEN /\ panicked' = TRUE
                /\ panicWhy' = "unwrap"
                /\ pc' = [pc EXCEPT ![c] = "panic"]
                /\ UNCHANGED <<addrs, addr_len, iter, taken>>
           ELSE LET r == Coalesce(addrs, addr_len, PMEM_BASE + o.ret)
                IN  /\ taken' = taken \cup {o.ret}
                    /\ addrs' = r.addrs
                    /\ addr_len' = r.addr_len
                    /\ IF r.oob
                       THEN /\ panicked' = TRUE
                            /\ panicWhy' = "index"
                            /\ pc' = [pc EXCEPT ![c] = "panic"]
                            /\ UNCHANGED iter
                       ELSE /\ iter' = iter + 1
                            /\ pc' = [pc EXCEPT ![c] = "enlarge_heap"]
                            /\ UNCHANGED <<panicked, panicWhy>>
    /\ UNCHANGED <<bootvars, held, arg, heapLock, HEAP_ALLOCATOR, registered,
                   runValid>>
    /\ UNCHANGED <<sysvars, ptvars>>

\* The runs of the table, as heap.init receives them.
Runs(tbl, n) == {tbl[i] : i \in 0 .. (n - 1)}

\* The loop is over: heap.init(*addr, *len) for every run, and the rescue
\* returns to the allocator.
enlarge_heap_init(c) ==
    /\ ~panicked
    /\ pc[c] = "enlarge_heap"
    /\ iter = RESCUE_FRAMES
    /\ HEAP_ALLOCATOR' = HEAP_ALLOCATOR \cup Runs(addrs, addr_len)
    /\ registered' = registered \cup Runs(addrs, addr_len)
    /\ pc' = [pc EXCEPT ![c] = "heap_retry"]
    /\ UNCHANGED <<bootvars, FRAME_ALLOCATOR, frameLock, held, ret, arg,
                   heapLock, addrs, addr_len, iter, taken, panicked, panicWhy,
                   handed, runValid>>
    /\ UNCHANGED <<sysvars, ptvars>>

\* inner.alloc(layout) once more; a null pointer when it fails again.
heap_alloc_retry(c) ==
    /\ ~panicked
    /\ pc[c] = "heap_retry"
    /\ LET outs == HeapAllocOutcomes(HEAP_ALLOCATOR, arg[c])
       IN  IF outs # {}
           THEN \E o \in outs :
                    /\ HEAP_ALLOCATOR' = o.heap
                    /\ ret' = [ret EXCEPT ![c] = o.addr]
           ELSE /\ ret' = [ret EXCEPT ![c] = 0]
                /\ UNCHANGED HEAP_ALLOCATOR
    /\ heapLock' = NoOwner
    /\ pc' = [pc EXCEPT ![c] = "idle"]
    /\ arg' = [arg EXCEPT ![c] = 0]
    /\ addrs' = [i \in 0 .. (MAX_RUNS - 1) |-> <<0, 0>>]
    /\ addr_len' = 0
    /\ iter' = 0
    /\ taken' = {}
    /\ UNCHANGED <<bootvars, FRAME_ALLOCATOR, frameLock, held, registered,
                   panicked, panicWhy, handed, runValid>>
    /\ UNCHANGED <<sysvars, ptvars>>

MemStep ==
    \/ init_frame_allocator_lock
    \/ init_frame_allocator_region
    \/ init_frame_allocator_end
    \/ \E c \in Ctx : hal_frame_alloc_lock(c)
    \/ \E c \in Ctx : hal_frame_alloc(c)
    \/ \E c \in Ctx : hal_frame_dealloc_lock(c)
    \/ \E c \in Ctx : hal_frame_dealloc(c)
    \/ \E c \in Ctx : heap_alloc_lock(c)
    \/ \E c \in Ctx : heap_alloc(c)
    \/ \E c \in Ctx : enlarge_heap_lock(c)
    \/ \E c \in Ctx : enlarge_heap_frame(c)
    \/ \E c \in Ctx : enlarge_heap_init(c)
    \/ \E c \in Ctx : heap_alloc_retry(c)

(***************************************************************************)
(* The object syscalls: src/zircon-syscall/src/object.rs                   *)
(*                                                                         *)
(* The handle table, the kernel objects, the user-pointer helpers and the  *)
(* signal machinery live in zircon_object and kernel-hal, outside the      *)
(* sources at hand; they are modelled as the specification describes them. *)
(* User pointers are valid: a read or write through one succeeds.          *)
(***************************************************************************)
ZX_PROP_NAME == 3
ZX_PROP_REGISTER_FS == 4
ZX_PROP_PROCESS_DEBUG_ADDR == 5
ZX_PROCESS_VDSO_BASE_ADDRESS == 6
ZX_PROP_PROCESS_BREAK_ON_LOAD == 7
ZX_MAX_NAME_LEN == 32

\* The kernel objects the calling process has handles to, and their types.
ObjType ==
    [proc |-> "Process", thr_self |-> "Thread", thr_other |-> "Thread",
     vmar |-> "VmAddressRegion", port |-> "Port",
     ev_a |-> "EventPair", ev_b |-> "EventPair"]

Objs == DOMAIN ObjType

\* self.thread: the thread that makes the syscall.
SelfThread == "thr_self"

\* The handle table of self.thread.proc(): handle value -> (object, rights).
\* Handles 2, 7 and 9 lack the rights the operations ask for; 0 is no handle.
HandleTable ==
    (1 :> [obj |-> "proc", rights |-> {"GET_PROPERTY", "SET_PROPERTY", "INSPECT"}]) @@
    (2 :> [obj |-> "proc", rights |-> {"WAIT"}]) @@
    (3 :> [obj |-> "thr_self", rights |-> {"GET_PROPERTY", "SET_PROPERTY", "INSPECT"}]) @@
    (4 :> [obj |-> "thr_other", rights |-> {"GET_PROPERTY", "SET_PROPERTY", "INSPECT"}]) @@
    (5 :> [obj |-> "vmar", rights |-> {"GET_PROPERTY", "INSPECT"}]) @@
    (6 :> [obj |-> "port", rights |-> {"GET_PROPERTY", "WRITE"}]) @@
    (7 :> [obj |-> "port", rights |-> {"GET_PROPERTY", "WAIT"}]) @@
    (8 :> [obj |-> "ev_a", rights |-> {"GET_PROPERTY", "WAIT"}]) @@
    (9 :> [obj |-> "ev_a", rights |-> {"GET_PROPERTY"}]) @@
    (10 :> [obj |-> "ev_b", rights |-> {"SIGNAL_PEER"}])

\* proc.get_dyn_object_with_rights(handle, right)
get_dyn_object_with_rights(h, right) ==
    IF h \notin DOMAIN HandleTable THEN [err |-> "BAD_HANDLE", obj |-> "none"]
    ELSE IF right \notin HandleTable[h].rights
    THEN [err |-> "ACCESS_DENIED", obj |-> "none"]
    ELSE [err |-> "OK", obj |-> HandleTable[h].obj]

\* proc.get_object_with_rights::<T>(handle, right)
get_object_with_rights(h, type, right) ==
    IF h \notin DOMAIN HandleTable THEN [err |-> "BAD_HANDLE", obj |-> "none"]
    ELSE IF right \notin HandleTable[h].rights
    THEN [err |-> "ACCESS_DENIED", obj |-> "none"]
    ELSE IF ObjType[HandleTable[h].obj] # type
    THEN [err |-> "WRONG_TYPE", obj |-> "none"]
    ELSE [err |-> "OK", obj |-> HandleTable[h].obj]

\* proc.get_object::<T>(handle): no rights are asked for.
get_object(h, type) ==
    IF h \notin DOMAIN HandleTable THEN [err |-> "BAD_HANDLE", obj |-> "none"]
    ELSE IF ObjType[HandleTable[h].obj] # type
    THEN [err |-> "WRONG_TYPE", obj |-> "none"]
    ELSE [err |-> "OK", obj |-> HandleTable[h].obj]

\* proc.get_handle_info(handle): no rights are asked for.
get_handle_info(h) ==
    IF h \notin DOMAIN HandleTable THEN [err |-> "BAD_HANDLE", obj |-> "none"]
    ELSE [err |-> "OK", obj |-> HandleTable[h].obj]

\* The bytes of the user buffer a set-name call passes: n bytes, none of them 0.
UserString(n) == [i \in 1 .. n |-> ((i - 1) % 7) + 1]

\* UserInPtr::<u8>::read_string(length): the first `length` bytes of the buffer.
read_string(buf, length) == SubSeq(buf, 1, length)

\* UserOutPtr::<u8>::write_cstring(s): the bytes of s and the terminator.
write_cstring(s) == [kind |-> "cstring", val |-> Append(s, 0)]

\* UserOutPtr::<usize>::write(v)
write_usize(v) == [kind |-> "usize", val |-> <<v>>]

\* Option::unwrap_or
unwrap_or(v, d) == IF v = None THEN d ELSE v

\* No call is at the syscall boundary: the thread runs in user mode.
NoCall ==
    [op |-> "none", handle |-> 0, num |-> 0, size |-> 0, val |-> 0,
     mask |-> {}, mask2 |-> {}, port |-> 0, key |-> 0, options |-> 0,
     ret |-> "NONE"]

\* Nothing was written through a user pointer.
NoWrite == [kind |-> "none", val |-> <<>>]

\* No wait-one call is in flight.
NoWaiter ==
    [st |-> "none", handle |-> 0, signals |-> {}, obj |-> "none", mask |-> {},
     observed |-> {}, ret |-> "NONE", wrote |-> NoWrite, slept |-> FALSE]

SysInit ==
    /\ name = [o \in Objs |-> <<>>]
    /\ debug_addr = 0
    /\ break_on_load = 0
    /\ vdso_code_start \in {None, 1}
    /\ fsbase = 0
    /\ userMem = NoWrite
    /\ signal = [o \in Objs |-> {}]
    /\ regs = <<>>
    /\ portq = <<>>
    /\ waiter = NoWaiter
    /\ last = NoCall

propstate == <<name, debug_addr, break_on_load, fsbase>>
sigstate == <<signal, regs, portq, waiter>>

(***************************************************************************)
(* sys_object_get_property                                                 *)
(***************************************************************************)
\* The result code and what the call writes to *ptr (userMem when nothing).
GetProperty_UnknownAsZero(h, property, buffer_size) ==
    LET object == get_dyn_object_with_rights(h, "GET_PROPERTY")
        process == get_object_with_rights(h, "Process", "GET_PROPERTY")
    IN  IF object.err # "OK" THEN [ret |-> object.err, mem |-> NoWrite]
        ELSE IF property = ZX_PROP_NAME
        THEN IF buffer_size < ZX_MAX_NAME_LEN
             THEN [ret |-> "BUFFER_TOO_SMALL", mem |-> NoWrite]
             ELSE [ret |-> "OK", mem |-> write_cstring(name[object.obj])]
        ELSE IF property = ZX_PROP_PROCESS_DEBUG_ADDR
        THEN IF buffer_size < 8
             THEN [ret |-> "BUFFER_TOO_SMALL", mem |-> NoWrite]
             ELSE IF process.err # "OK"
             THEN [ret |-> process.err, mem |-> NoWrite]
             ELSE [ret |-> "OK", mem |-> write_usize(debug_addr)]
        ELSE IF property = ZX_PROCESS_VDSO_BASE_ADDRESS
        THEN IF buffer_size < 8
             THEN [ret |-> "BUFFER_TOO_SMALL", mem |-> NoWrite]
             ELSE [ret |-> "OK", mem |-> write_usize(unwrap_or(vdso_code_start, 0))]
        ELSE IF property = ZX_PROP_PROCESS_BREAK_ON_LOAD
        THEN IF buffer_size < 8
             THEN [ret |-> "BUFFER_TOO_SMALL", mem |-> NoWrite]
             ELSE IF process.err # "OK"
             THEN [ret |-> process.err, mem |-> NoWrite]
             ELSE [ret |-> "OK", mem |-> write_usize(break_on_load)]
        ELSE [ret |-> "OK", mem |-> write_usize(0)]

GetProperty(h, property, buffer_size) ==
    LET object == get_dyn_object_with_rights(h, "GET_PROPERTY")
        process == get_object_with_rights(h, "Process", "GET_PROPERTY")
    IN  IF object.err # "OK" THEN [ret |-> object.err, mem |-> NoWrite]
        ELSE IF property = ZX_PROP_NAME
        THEN IF buffer_size < ZX_MAX_NAME_LEN
             THEN [ret |-> "BUFFER_TOO_SMALL", mem |-> NoWrite]
             ELSE [ret |-> "OK", mem |-> write_cstring(name[object.obj])]
        ELSE IF property = ZX_PROP_PROCESS_DEBUG_ADDR
        THEN IF buffer_size < 8
             THEN [ret |-> "BUFFER_TOO_SMALL", mem |-> NoWrite]
             ELSE IF process.err # "OK"
             THEN [ret |-> process.err, mem |-> NoWrite]
             ELSE [ret |-> "OK", mem |-> write_usize(debug_addr)]
        ELSE IF property = ZX_PROCESS_VDSO_BASE_ADDRESS
        THEN IF buffer_size < 8
             THEN [ret |-> "BUFFER_TOO_SMALL", mem |-> NoWrite]
             ELSE [ret |-> "OK", mem |-> write_usize(unwrap_or(vdso_code_start, 0))]
        ELSE IF property = ZX_PROP_PROCESS_BREAK_ON_LOAD
        THEN IF buffer_size < 8
             THEN [ret |-> "BUFFER_TOO_SMALL", mem |-> NoWrite]
             ELSE IF process.err # "OK"
             THEN [ret |-> process.err, mem |-> NoWrite]
             ELSE [ret |-> "OK", mem |-> write_usize(break_on_load)]
        ELSE [ret |-> "INVALID_ARGS", mem |-> NoWrite]

sys_object_get_property(h, property, buffer_size) ==
    /\ ~panicked
    /\ last = NoCall
    /\ LET r == GetProperty(h, property, buffer_size)
       IN  /\ userMem' = r.mem
           /\ last' = [NoCall EXCEPT !.op = "get_property", !.handle = h,
                          !.num = property, !.size = buffer_size, !.ret = r.ret]
    /\ UNCHANGED <<propstate, sigstate, vdso_code_start, panicked, panicWhy>>
    /\ UNCHANGED <<memstate, ptvars>>

(***************************************************************************)
(* sys_object_set_property                                                 *)
(***************************************************************************)
\* ZX_PROP_NAME: the number of bytes read from the user buffer.
NameLength(buffer_size) ==
    IF buffer_size > ZX_MAX_NAME_LEN THEN ZX_MAX_NAME_LEN - 1 ELSE buffer_size

\* `assert!(Arc::ptr_eq(&thread, &self.thread))`
SameThread_NoAssert(thread) == TRUE

SameThread(thread) == thread = SelfThread

\* The result code (PANIC when the kernel panics) and the state the call
\* leaves; v is the 8-byte value at *ptr.
SetProperty(h, property, v, buffer_size) ==
    LET object == get_dyn_object_with_rights(h, "SET_PROPERTY")
        process == get_object_with_rights(h, "Process", "SET_PROPERTY")
        thread == get_object(h, "Thread")
        same == [ret |-> "OK", name |-> name, debug_addr |-> debug_addr,
                 break_on_load |-> break_on_load, fsbase |-> fsbase]
    IN  IF object.err # "OK" THEN [same EXCEPT !.ret = object.err]
        ELSE IF property = ZX_PROP_NAME
        THEN LET length == NameLength(buffer_size)
                 str == read_string(UserString(buffer_size), length)
             IN  [same EXCEPT !.name = [name EXCEPT ![object.obj] = str]]
        ELSE IF property = ZX_PROP_PROCESS_DEBUG_ADDR
        THEN IF buffer_size < 8 THEN [same EXCEPT !.ret = "BUFFER_TOO_SMALL"]
             ELSE IF process.err # "OK" THEN [same EXCEPT !.ret = process.err]
             ELSE [same EXCEPT !.debug_addr = v]
        ELSE IF property = ZX_PROP_REGISTER_FS
        THEN IF buffer_size < 8 THEN [same EXCEPT !.ret = "BUFFER_TOO_SMALL"]
             ELSE IF thread.err # "OK" THEN [same EXCEPT !.ret = thread.err]
             ELSE IF ~SameThread(thread.obj) THEN [same EXCEPT !.ret = "PANIC"]
             ELSE [same EXCEPT !.fsbase = v]
        ELSE IF property = ZX_PROP_PROCESS_BREAK_ON_LOAD
        THEN IF buffer_size < 8 THEN [same EXCEPT !.ret = "BUFFER_TOO_SMALL"]
             ELSE IF process.err # "OK" THEN [same EXCEPT !.ret = process.err]
             ELSE [same EXCEPT !.break_on_load = v]
        ELSE [same EXCEPT !.ret = "INVALID_ARGS"]

sys_object_set_property(h, property, v, buffer_size) ==
    /\ ~panicked
    /\ last = NoCall
    /\ LET r == SetProperty(h, property, v, buffer_size)
       IN  /\ name' = r.name
           /\ debug_addr' = r.debug_addr
           /\ break_on_load' = r.break_on_load
           /\ fsbase' = r.fsbase
           /\ panicked' = (r.ret = "PANIC")
           /\ panicWhy' = IF r.ret = "PANIC" THEN "assert" ELSE panicWhy
           /\ last' = [NoCall EXCEPT !.op = "set_property", !.handle = h,
                          !.num = property, !.size = buffer_size, !.val = v,
                          !.ret = r.ret]
           /\ userMem' = NoWrite
    /\ UNCHANGED <<sigstate, vdso_code_start>>
    /\ UNCHANGED <<memstate, ptvars>>

(***************************************************************************)
(* sys_object_get_info                                                     *)
(***************************************************************************)
\* impl From<u32> for ZxInfo
ZxInfoFrom(number) ==
    CASE number = 0 -> "InfoNone"
      [] number = 1 -> "InfoHandleValid"
      [] number = 2 -> "InfoHandleBasic"
      [] number = 3 -> "InfoProcess"
      [] number = 4 -> "InfoProcessThreads"
      [] number = 7 -> "InfoVmar"
      [] number = 8 -> "InfoJobChildren"
      [] number = 9 -> "InfoJobProcess"
      [] number = 10 -> "InfoThread"
      [] number = 11 -> "InfoThreadExceptionReport"
      [] number = 12 -> "InfoTaskStats"
      [] number = 13 -> "InfoProcessMaps"
      [] number = 14 -> "InfoProcessVmos"
      [] number = 15 -> "InfoThreadStats"
      [] number = 16 -> "InfoCpuStats"
      [] number = 17 -> "InfoKmemStats"
      [] number = 18 -> "InfoResource"
      [] number = 19 -> "InfoHandleCount"
      [] number = 20 -> "InfoBti"
      [] number = 21 -> "InfoProcessHandleStats"
      [] number = 22 -> "InfoSocket"
      [] number = 23 -> "InfoVmo"
      [] number = 24 -> "InfoJob"
      [] number = 26 -> "InfoTimer"
      [] number = 27 -> "InfoStream"
      [] OTHER -> "Unknown"

\* UserOutPtr::<T>::from(buffer).write(info) of one of the info structures.
write_info(kind, obj) == [kind |-> kind, val |-> <<>>]

GetInfo_FallbackInvalidArgs(h, topic) ==
    LET info == ZxInfoFrom(topic)
        proc == get_object_with_rights(h, "Process", "INSPECT")
        vmar == get_object_with_rights(h, "VmAddressRegion", "INSPECT")
        basic == get_handle_info(h)
    IN  IF info = "InfoProcess"
        THEN IF proc.err # "OK" THEN [ret |-> proc.err, mem |-> NoWrite]
             ELSE [ret |-> "OK", mem |-> write_info("ProcessInfo", proc.obj)]
        ELSE IF info = "InfoVmar"
        THEN IF vmar.err # "OK" THEN [ret |-> vmar.err, mem |-> NoWrite]
             ELSE [ret |-> "OK", mem |-> write_info("VmarInfo", vmar.obj)]
        ELSE IF info = "InfoHandleBasic"
        THEN IF basic.err # "OK" THEN [ret |-> basic.err, mem |-> NoWrite]
             ELSE [ret |-> "OK", mem |-> write_info("HandleBasicInfo", basic.obj)]
        ELSE [ret |-> "INVALID_ARGS", mem |-> NoWrite]

GetInfo(h, topic) ==
    LET info == ZxInfoFrom(topic)
        proc == get_object_with_rights(h, "Process", "INSPECT")
        vmar == get_object_with_rights(h, "VmAddressRegion", "INSPECT")
        basic == get_handle_info(h)
    IN  IF info = "InfoProcess"
        THEN IF proc.err # "OK" THEN [ret |-> proc.err, mem |-> NoWrite]
             ELSE [ret |-> "OK", mem |-> write_info("ProcessInfo", proc.obj)]
        ELSE IF info = "InfoVmar"
        THEN IF vmar.err # "OK" THEN [ret |-> vmar.err, mem |-> NoWrite]
             ELSE [ret |-> "OK", mem |-> write_info("VmarInfo", vmar.obj)]
        ELSE IF info = "InfoHandleBasic"
        THEN IF basic.err # "OK" THEN [ret |-> basic.err, mem |-> NoWrite]
             ELSE [ret |-> "OK", mem |-> write_info("HandleBasicInfo", basic.obj)]
        ELSE [ret |-> "NOT_SUPPORTED", mem |-> NoWrite]

sys_object_get_info(h, topic) ==
    /\ ~panicked
    /\ last = NoCall
    /\ LET r == GetInfo(h, topic)
       IN  /\ userMem' = r.mem
           /\ last' = [NoCall EXCEPT !.op = "get_info", !.handle = h,
                          !.num = topic, !.ret = r.ret]
    /\ UNCHANGED <<propstate, sigstate, vdso_code_start, panicked, panicWhy>>
    /\ UNCHANGED <<memstate, ptvars>>

\* The call returns to user mode with its result.
sys_return ==
    /\ ~panicked
    /\ last # NoCall
    /\ last' = NoCall
    /\ userMem' = NoWrite
    /\ UNCHANGED <<propstate, sigstate, vdso_code_start, panicked, panicWhy>>
    /\ UNCHANGED <<memstate, ptvars>>

\* The arguments the property calls are made with.
PropHandles == {0, 1, 2, 3, 4, 5}
Properties == {2, 3, 4, 5, 6, 7, 8, 9}
BufferSizes == {7, 31, 32, 33}
Values == {1}
Topics == {2, 3, 4, 5, 6, 7, 10, 25, 27, 99}

PropStep ==
    \/ \E h \in PropHandles, p \in Properties, n \in BufferSizes :
          sys_object_get_property(h, p, n)
    \/ \E h \in PropHandles, p \in Properties, v \in Values, n \in BufferSizes :
          sys_object_set_property(h, p, v, n)
    \/ \E h \in PropHandles, t \in Topics : sys_object_get_info(h, t)
    \/ sys_return

(***************************************************************************)
(* Signals, waiters and the port                                           *)
(***************************************************************************)
\* Pending registrations plus queued packets never exceed this.
MaxPending == 2

\* Signal bits: R is an object signal (readable), U a user signal; X is a
\* bit no Signal flag is defined for.
SignalBits == {"R", "U"}
UserSignalBits == {"U"}

\* Signal::from_bits(bits): None when an undefined bit is set.
from_bits(bits) == IF bits \subseteq SignalBits THEN "Some" ELSE "None"

\* Signal::verify_user_signal(mask)
verify_user_signal(mask) ==
    IF mask \subseteq UserSignalBits THEN "OK" ELSE "INVALID_ARGS"

\* The related endpoint of an object.
PeerOf(o) ==
    CASE o = "ev_a" -> "ev_b"
      [] o = "ev_b" -> "ev_a"
      [] OTHER -> "none"

RECURSIVE SelectSeq2(_, _, _)
\* The subsequence of s whose registrations do (keep) or do not (~keep) fire
\* on a change of object o that sets the bits `set`.
SelectSeq2(s, o, set) ==
    IF s = <<>> THEN [fired |-> <<>>, left |-> <<>>]
    ELSE LET r == Head(s)
             t == SelectSeq2(Tail(s), o, set)
         IN  IF r.obj = o /\ r.mask \cap set # {}
             THEN [fired |-> <<[key |-> r.key]>> \o t.fired, left |-> t.left]
             ELSE [fired |-> t.fired, left |-> <<r>> \o t.left]

\* KObject::signal_change(clear, set) on object o: the new signal state, the
\* registrations left, the packets queued on the port, and the waiter woken
\* when the new state intersects its mask.
signal_change(o, clear, set) ==
    LET new == (signal[o] \ clear) \cup set
        sel == SelectSeq2(regs, o, set)
    IN  /\ signal' = [signal EXCEPT ![o] = new]
        /\ regs' = sel.left
        /\ portq' = portq \o sel.fired
        /\ waiter' = IF waiter.st = "pending" /\ waiter.obj = o
                        /\ waiter.mask \cap new # {}
                     THEN [waiter EXCEPT !.st = "ready", !.observed = new]
                     ELSE waiter

\* The packets a change of o that sets `set` queues.
FiredBy(o, set) == SelectSeq2(regs, o, set).fired

\* Object-specific logic changes the signal state of ev_a.
object_signal(clear, set) ==
    /\ ~panicked
    /\ last = NoCall
    /\ signal_change("ev_a", clear, set)
    /\ last' = [NoCall EXCEPT !.op = "object_signal", !.mask = clear,
                   !.mask2 = set, !.num = Len(FiredBy("ev_a", set)),
                   !.ret = "OK"]
    /\ userMem' = NoWrite
    /\ UNCHANGED <<propstate, vdso_code_start, panicked, panicWhy>>
    /\ UNCHANGED <<memstate, ptvars>>

\* A reader takes the oldest packet off the port.
port_read ==
    /\ ~panicked
    /\ last = NoCall
    /\ portq # <<>>
    /\ portq' = Tail(portq)
    /\ last' = [NoCall EXCEPT !.op = "port_read", !.key = Head(portq).key,
                   !.ret = "OK"]
    /\ userMem' = NoWrite
    /\ UNCHANGED <<propstate, vdso_code_start, signal, regs, waiter, panicked,
                   panicWhy>>
    /\ UNCHANGED <<memstate, ptvars>>

(***************************************************************************)
(* sys_object_signal_peer                                                  *)
(***************************************************************************)
SignalPeer_SetUnverified(h, clear_mask, set_mask) ==
    LET object == get_dyn_object_with_rights(h, "SIGNAL_PEER")
    IN  IF object.err # "OK" THEN [ret |-> object.err, peer |-> "none"]
        ELSE IF verify_user_signal(clear_mask) # "OK"
        THEN [ret |-> "INVALID_ARGS", peer |-> "none"]
        ELSE IF PeerOf(object.obj) = "none"
        THEN [ret |-> "NOT_SUPPORTED", peer |-> "none"]
        ELSE [ret |-> "OK", peer |-> PeerOf(object.obj)]

\* The result code and the object whose signals change ("none": no effect).
SignalPeer(h, clear_mask, set_mask) ==
    LET object == get_dyn_object_with_rights(h, "SIGNAL_PEER")
    IN  IF object.err # "OK" THEN [ret |-> object.err, peer |-> "none"]
        ELSE IF verify_user_signal(clear_mask) # "OK"
        THEN [ret |-> "INVALID_ARGS", peer |-> "none"]
        ELSE IF verify_user_signal(set_mask) # "OK"
        THEN [ret |-> "INVALID_ARGS", peer |-> "none"]
        ELSE IF PeerOf(object.obj) = "none"
        THEN [ret |-> "NOT_SUPPORTED", peer |-> "none"]
        ELSE [ret |-> "OK", peer |-> PeerOf(object.obj)]

sys_object_signal_peer(h, clear_mask, set_mask) ==
    /\ ~panicked
    /\ last = NoCall
    /\ LET r == SignalPeer(h, clear_mask, set_mask)
       IN  /\ IF r.peer = "none"
              THEN UNCHANGED <<signal, regs, portq, waiter>>
              ELSE signal_change(r.peer, clear_mask, set_mask)
           /\ last' = [NoCall EXCEPT !.op = "signal_peer", !.handle = h,
                          !.mask = clear_mask, !.mask2 = set_mask,
                          !.num = IF r.peer = "none" THEN 0
                                  ELSE Len(FiredBy(r.peer, set_mask)),
                          !.ret = r.ret]
    /\ userMem' = NoWrite
    /\ UNCHANGED <<propstate, vdso_code_start, panicked, panicWhy>>
    /\ UNCHANGED <<memstate, ptvars>>

(***************************************************************************)
(* sys_object_wait_async                                                   *)
(***************************************************************************)
\* object.send_signal_to_port_async(signals, &port, key): the registration
\* the object records.
send_signal_to_port_async(o, signals, port, key) ==
    [obj |-> o, port |-> port, key |-> key, mask |-> signals]

WaitAsync_AllSignals(h, ph, key, signals, options) ==
    LET object == get_dyn_object_with_rights(h, "WAIT")
        port == get_object_with_rights(ph, "Port", "WRITE")
    IN  IF from_bits(signals) = "None" THEN [ret |-> "INVALID_ARGS", regs |-> regs]
        ELSE IF options # 0 THEN [ret |-> "PANIC", regs |-> regs]
        ELSE IF object.err # "OK" THEN [ret |-> object.err, regs |-> regs]
        ELSE IF port.err # "OK" THEN [ret |-> port.err, regs |-> regs]
        ELSE [ret |-> "OK",
              regs |-> Append(regs, send_signal_to_port_async(
                                        object.obj, SignalBits, port.obj, key))]

\* The result code (PANIC for unimplemented!()) and the registrations left.
WaitAsync(h, ph, key, signals, options) ==
    LET object == get_dyn_object_with_rights(h, "WAIT")
        port == get_object_with_rights(ph, "Port", "WRITE")
    IN  IF from_bits(signals) = "None" THEN [ret |-> "INVALID_ARGS", regs |-> regs]
        ELSE IF options # 0 THEN [ret |-> "PANIC", regs |-> regs]
        ELSE IF object.err # "OK" THEN [ret |-> object.err, regs |-> regs]
        ELSE IF port.err # "OK" THEN [ret |-> port.err, regs |-> regs]
        ELSE [ret |-> "OK",
              regs |-> Append(regs, send_signal_to_port_async(
                                        object.obj, signals, port.obj, key))]

sys_object_wait_async(h, ph, key, signals, options) ==
    /\ ~panicked
    /\ last = NoCall
    /\ Len(regs) + Len(portq) < MaxPending
    /\ LET r == WaitAsync(h, ph, key, signals, options)
       IN  /\ regs' = r.regs
           /\ panicked' = (r.ret = "PANIC")
           /\ panicWhy' = IF r.ret = "PANIC" THEN "unimplemented" ELSE panicWhy
           /\ last' = [NoCall EXCEPT !.op = "wait_async", !.handle = h,
                          !.port = ph, !.key = key, !.mask = signals,
                          !.options = options, !.ret = r.ret]
    /\ userMem' = NoWrite
    /\ UNCHANGED <<propstate, vdso_code_start, signal, portq, waiter>>
    /\ UNCHANGED <<memstate, ptvars>>

(***************************************************************************)
(* sys_object_wait_one                                                     *)
(***************************************************************************)
\* The mask handed to object.wait_signal_async(signals).
WaitMask_Empty(signals) == {}

WaitMask(signals) == signals

\* What the call writes to `observed` when the wait completes.
Observed(w) == w.observed

\* The call up to the first poll of object.wait_signal_async(signals): an
\* error, a wait that is ready at once (the signal state already intersects
\* the mask), or a waiter registered on the object.  The check and the
\* registration are one atomic step, under the object's lock.
WaitOne(h, signals) ==
    LET object == get_dyn_object_with_rights(h, "WAIT")
        w == [NoWaiter EXCEPT !.handle = h, !.signals = signals]
    IN  IF from_bits(signals) = "None"
        THEN [w EXCEPT !.st = "done", !.ret = "INVALID_ARGS"]
        ELSE IF object.err # "OK"
        THEN [w EXCEPT !.st = "done", !.ret = object.err]
        ELSE IF signal[object.obj] \cap WaitMask(signals) # {}
        THEN [w EXCEPT !.st = "ready", !.obj = object.obj,
                       !.mask = WaitMask(signals),
                       !.observed = signal[object.obj]]
        ELSE [w EXCEPT !.st = "pending", !.obj = object.obj,
                       !.mask = WaitMask(signals), !.slept = TRUE]

sys_object_wait_one(h, signals) ==
    /\ ~panicked
    /\ waiter.st = "none"
    /\ waiter' = WaitOne(h, signals)
    /\ UNCHANGED <<propstate, vdso_code_start, signal, regs, portq, userMem,
                   last, panicked, panicWhy>>
    /\ UNCHANGED <<memstate, ptvars>>

\* The future is ready: observed.write(...)?; Ok(0)
sys_object_wait_one_resume ==
    /\ ~panicked
    /\ waiter.st = "ready"
    /\ waiter' = [waiter EXCEPT !.st = "done", !.ret = "OK",
                     !.wrote = [kind |-> "signal", val |-> Observed(waiter)]]
    /\ UNCHANGED <<propstate, vdso_code_start, signal, regs, portq, userMem,
                   last, panicked, panicWhy>>
    /\ UNCHANGED <<memstate, ptvars>>

\* The call returns to user mode with its result.
sys_object_wait_one_return ==
    /\ ~panicked
    /\ waiter.st = "done"
    /\ waiter' = NoWaiter
    /\ UNCHANGED <<propstate, vdso_code_start, signal, regs, portq, userMem,
                   last, panicked, panicWhy>>
    /\ UNCHANGED <<memstate, ptvars>>

\* The arguments the signal calls are made with.
WaitHandles == {0, 8, 9}
PortHandles == {6, 7, 8}
PeerHandles == {0, 8, 10}
Keys == {1, 2}
WaitMasks == {{}, {"R"}, {"U"}, {"R", "U"}, {"R", "X"}}
PeerMasks == {{}, {"U"}, {"R"}, {"U", "X"}}
ObjectChanges == {{}, {"R"}, {"R", "U"}}
Options == {0, 1}

AsyncStep ==
    \/ \E h \in WaitHandles, ph \in PortHandles, k \in Keys, m \in WaitMasks,
          o \in Options : sys_object_wait_async(h, ph, k, m, o)
    \/ \E h \in PeerHandles, c \in PeerMasks, s \in PeerMasks :
          sys_object_signal_peer(h, c, s)
    \/ \E c \in ObjectChanges, s \in ObjectChanges : object_signal(c, s)
    \/ port_read
    \/ sys_return

WaitStep ==
    \/ \E h \in WaitHandles, m \in WaitMasks : sys_object_wait_one(h, m)
    \/ sys_object_wait_one_resume
    \/ sys_object_wait_one_return
    \/ \E h \in PeerHandles, c \in PeerMasks, s \in PeerMasks :
          sys_object_signal_peer(h, c, s)
    \/ \E c \in ObjectChanges, s \in ObjectChanges : object_signal(c, s)
    \/ sys_return

(***************************************************************************)
(* The specifications                                                      *)
(***************************************************************************)
(***************************************************************************)
(* hal_pt_map_kernel                                                       *)
(***************************************************************************)
\* A PageTable has 512 entries; an entry is an address and a set of flags.
PtIndices == 0 .. 511
EmptyEntry == [addr |-> 0, flags |-> {}]
PtFlags == {"PRESENT", "WRITABLE", "GLOBAL"}

\* A table that is empty but for the entries of `set`, a function from some
\* indices to entries.
TableWith(set) ==
    [i \in PtIndices |-> IF i \in DOMAIN set THEN set[i] ELSE EmptyEntry]

\* The active table: kernel image and physical window mapped, with or without
\* GLOBAL, and a user mapping in slot 0.
CurrentTables ==
    { TableWith((0 :> [addr |-> 1, flags |-> {"PRESENT", "WRITABLE"}]) @@
                (KERNEL_PM4 :> [addr |-> ka, flags |-> kf]) @@
                (PHYSICAL_MEMORY_PM4 :> [addr |-> pa, flags |-> pf])) :
        ka \in {2, 3}, pa \in {4, 5},
        kf \in {{"PRESENT"}, {"PRESENT", "GLOBAL"}},
        pf \in {{"PRESENT", "WRITABLE"}, {}} }

\* The table the caller hands in: empty, or with user mappings, or with
\* entries already in the kernel slots and next to them.
NewTables ==
    { TableWith(<<>>),
      TableWith((0 :> [addr |-> 6, flags |-> {"PRESENT"}]) @@
                (1 :> [addr |-> 7, flags |-> {"PRESENT", "WRITABLE"}])),
      TableWith((KERNEL_PM4 :> [addr |-> 8, flags |-> {"PRESENT"}]) @@
                (PHYSICAL_MEMORY_PM4 :> [addr |-> 9, flags |-> {"WRITABLE"}])),
      TableWith((KERNEL_PM4 - 1 :> [addr |-> 6, flags |-> {"PRESENT"}]) @@
                (KERNEL_PM4 + 1 :> [addr |-> 7, flags |-> {"PRESENT"}]) @@
                (PHYSICAL_MEMORY_PM4 - 1 :> [addr |-> 8, flags |-> {"PRESENT"}]) @@
                (PHYSICAL_MEMORY_PM4 + 1 :> [addr |-> 9, flags |-> {"PRESENT"}])) }

\* PageTableEntry::set_addr(addr, flags): the entry becomes addr | flags.
set_addr(addr, flags) == [addr |-> addr, flags |-> flags]

GlobalFlags_Unchanged(e) == e.flags

\* ekernel.flags() | EF::GLOBAL
GlobalFlags(e) == e.flags \cup {"GLOBAL"}

hal_pt_map_kernel ==
    /\ pt # NoTable
    /\ LET ekernel == current[KERNEL_PM4]
           ephysical == current[PHYSICAL_MEMORY_PM4]
           pt1 == [pt EXCEPT
                     ![KERNEL_PM4] = set_addr(ekernel.addr, GlobalFlags(ekernel))]
       IN  pt' = [pt1 EXCEPT
                     ![PHYSICAL_MEMORY_PM4] =
                         set_addr(ephysical.addr, GlobalFlags(ephysical))]
    /\ UNCHANGED <<current, memvars, sysvars>>

(***************************************************************************)
(* Specifications                                                          *)
(***************************************************************************)
PtInit ==
    /\ MemInitWith({<<Descriptor(0, 1, "CONVENTIONAL"),
                      Descriptor(MaxFrame - 2, 1, "RESERVED")>>})
    /\ SysInit
    /\ vdso_code_start = None
    /\ pt \in NewTables
    /\ current \in CurrentTables

PtNext == hal_pt_map_kernel

PtSpec == PtInit /\ [][PtNext]_vars

MemInit ==
    MemInitWith(MemoryMaps) /\ SysInit /\ vdso_code_start = None /\ PtNone

MemNext == MemStep

MemSpec == MemInit /\ [][MemNext]_vars

\* A context inside a call runs on: the steps that follow a lock acquisition.
Progress(c) ==
    \/ hal_frame_alloc(c)
    \/ hal_frame_dealloc(c)
    \/ heap_alloc(c)
    \/ enlarge_heap_frame(c)
    \/ enlarge_heap_init(c)
    \/ heap_alloc_retry(c)

BootProgress == init_frame_allocator_region \/ init_frame_allocator_end

\* The memory maps of the runs checked for progress: one conventional frame,
\* or all but one.  Every context inside a call keeps running, and a context that spins on a
\* lock that is free again and again gets it.  Whether a context starts a
\* call is up to its caller.
FairMaps ==
    {<<Descriptor(0, n, "CONVENTIONAL"), Descriptor(MaxFrame - 2, 1, "RESERVED")>> :
        n \in {1, MaxFrame - 1}}

MemFairInit ==
    MemInitWith(FairMaps) /\ SysInit /\ vdso_code_start = None /\ PtNone

MemFairSpec ==
    /\ MemFairInit
    /\ [][MemNext]_vars
    /\ \A c \in Ctx : WF_vars(Progress(c)) /\ SF_vars(enlarge_heap_lock(c))
    /\ WF_vars(BootProgress)
    /\ SF_vars(init_frame_allocator_lock)

\* The syscall layer runs after boot; the memory half stays as constructed.
PropInit ==
    /\ MemInitWith({<<Descriptor(0, 1, "CONVENTIONAL"),
                      Descriptor(MaxFrame - 2, 1, "RESERVED")>>})
    /\ SysInit
    /\ PtNone

PropNext == PropStep

PropSpec == PropInit /\ [][PropNext]_vars

AsyncNext == AsyncStep

SigInit == PropInit /\ vdso_code_start = None

AsyncSpec == SigInit /\ [][AsyncNext]_vars

WaitNext == WaitStep

WaitSpec == SigInit /\ [][WaitNext]_vars

\* The executor polls a woken future, and a finished call returns.
WaitFairSpec ==
    /\ SigInit
    /\ [][WaitNext]_vars
    /\ WF_vars(sys_object_wait_one_resume)
    /\ WF_vars(sys_object_wait_one_return)


(***************************************************************************)
(* Properties of the frame allocator and the heap rescue                   *)
(***************************************************************************)
\* The frames of the CONVENTIONAL descriptors among the first n of map m.
ConvFrames(m, n) ==
    {f \in Frames : \E i \in 1 .. n :
        /\ m[i].ty = "CONVENTIONAL"
        /\ m[i].phys_start <= f * PAGE_SIZE
        /\ f * PAGE_SIZE < m[i].phys_start + m[i].page_count * PAGE_SIZE}

\* The frames boot ingestion has inserted so far.
InsertedFrames ==
    CASE boot = "start" -> {}
      [] boot = "loop" -> ConvFrames(memory_map, region - 1)
      [] boot = "done" -> ConvFrames(memory_map, Len(memory_map))

\* The physical addresses the heap holds: those the running rescue took and
\* those of the arenas rescues registered.
HeapHeld ==
    taken \cup
    {p \in {f * PAGE_SIZE + MEMORY_OFFSET : f \in Frames} :
        \E a \in registered : a[1] <= PMEM_BASE + p /\ PMEM_BASE + p < a[1] + a[2]}

AllHeld == HeapHeld \cup UNION {held[c] : c \in Ctx}

FrameOf(p) == (p - MEMORY_OFFSET) \div PAGE_SIZE

\* C1: in every interleaving of hal_frame_alloc and hal_frame_dealloc no frame
\* is held by two callers at once, no held frame is free, the held frames and
\* the free frames together are exactly the frames inserted at boot, and when
\* every allocation has been given back the free set has its original size.
C1_FramesPartitioned ==
    /\ \A c \in Ctx : \A d \in Ctx : c # d => held[c] \cap held[d] = {}
    /\ \A c \in Ctx : held[c] \cap HeapHeld = {}
    /\ {FrameOf(p) : p \in AllHeld} \cap FRAME_ALLOCATOR = {}
    /\ {FrameOf(p) : p \in AllHeld} \cup FRAME_ALLOCATOR = InsertedFrames
    /\ AllHeld = {} =>
         Cardinality(FRAME_ALLOCATOR) = Cardinality(InsertedFrames)

\* Two contexts hold frames at once, after a dealloc, while a third frame is free.
C1_Witness ==
    /\ boot = "done"
    /\ ~runValid
    /\ \A c \in Ctx : held[c] # {}
    /\ FRAME_ALLOCATOR # {}

\* C2: a rescue whose hal_frame_alloc returned None (no free frame left) ends
\* with an out-of-memory result for its allocation; the kernel does not panic.
C2_ExhaustedRescueSurfacesOom ==
    \A c \in Ctx : (heapLock = c /\ ret[c] = None) => ~panicked

\* C3: a rescue that found at least one free frame succeeds: it registers the
\* frames it took, fewer than RESCUE_FRAMES when fewer were free, and never
\* brings the kernel down.
C3_RescueSucceedsWhileFramesRemain ==
    \A c \in Ctx : (heapLock = c /\ taken # {}) => ~panicked

\* hal_frame_alloc returns to context c in this step.
FrameAllocReturns(c) ==
    \/ pc[c] = "frame_alloc" /\ pc'[c] = "idle"
    \/ pc[c] = "enlarge_heap_alloc" /\ pc'[c] # "enlarge_heap_alloc"

ConvAddrs ==
    {f * PAGE_SIZE + MEMORY_OFFSET : f \in ConvFrames(memory_map, Len(memory_map))}

\* C9: after init_frame_allocator, in a run of hal_frame_alloc calls with no
\* dealloc, every call returns a frame of a CONVENTIONAL region that the run
\* has not returned before, and returns None only once every such frame has
\* been handed out.
C9_EachConventionalFrameOnce ==
    [][\A c \in Ctx : (runValid /\ FrameAllocReturns(c)) =>
          IF ret'[c] = None
          THEN handed = ConvAddrs
          ELSE ret'[c] \in ConvAddrs \ handed]_vars

\* The run handed out every frame of a map that has a RESERVED descriptor and
\* at least three CONVENTIONAL frames, and the next call returned None.
C9_Witness ==
    /\ runValid
    /\ handed = ConvAddrs
    /\ Cardinality(handed) >= 3
    /\ \E i \in 1 .. Len(memory_map) : memory_map[i].ty = "RESERVED"
    /\ \E c \in Ctx : pc[c] = "idle" /\ ret[c] = None


(***************************************************************************)
(* Properties of the object syscalls                                       *)
(***************************************************************************)
\* The right each operation asks of its handle.
RequiredRight ==
    [get_property |-> "GET_PROPERTY", set_property |-> "SET_PROPERTY",
     get_info |-> "INSPECT", signal_peer |-> "SIGNAL_PEER",
     wait_async |-> "WAIT"]

\* The call recorded in l was made with a live handle that lacks the right
\* its operation requires (for wait-async also: a port handle without WRITE).
LacksRight(l) ==
    /\ l.op \in DOMAIN RequiredRight
    /\ \/ /\ l.handle \in DOMAIN HandleTable
          /\ RequiredRight[l.op] \notin HandleTable[l.handle].rights
       \/ /\ l.op = "wait_async"
          /\ l.port \in DOMAIN HandleTable
          /\ "WRITE" \notin HandleTable[l.port].rights

\* C4: a call whose handle lacks the required right has no effect (no user
\* memory written, no property, fsbase, signal state or registration changed)
\* and ends with ACCESS_DENIED, never with a panic; the same for wait-one.
C4_NoRightNoEffect ==
    [][/\ (last = NoCall /\ last' # NoCall /\ LacksRight(last')) =>
            /\ last'.ret = "ACCESS_DENIED"
            /\ ~panicked'
            /\ userMem' = NoWrite
            /\ UNCHANGED <<propstate, signal, regs, portq>>
       /\ (waiter.st = "none" /\ waiter'.st # "none"
           /\ waiter'.handle \in DOMAIN HandleTable
           /\ "WAIT" \notin HandleTable[waiter'.handle].rights) =>
            /\ waiter'.st = "done"
            /\ waiter'.ret = "ACCESS_DENIED"
            /\ waiter'.wrote = NoWrite
            /\ UNCHANGED <<propstate, signal, regs, portq>>]_vars

\* The number of packets tagged k in queue q.
CountKey(q, k) == Cardinality({i \in DOMAIN q : q[i].key = k})

\* The object a signal step recorded in l changes.
SignalTarget(l) ==
    IF l.op = "object_signal" THEN "ev_a" ELSE PeerOf(HandleTable[l.handle].obj)

C7_OptionsRejected ==
    (last.op = "wait_async" /\ last.options # 0) =>
        (last.ret = "INVALID_ARGS" /\ ~panicked)

\* s is a prefix of t.
IsPrefix(s, t) == Len(s) <= Len(t) /\ s = SubSeq(t, 1, Len(s))

\* C8: get-name with a buffer below 32 bytes fails with BUFFER_TOO_SMALL; with
\* 32 bytes it writes a null-terminated string of at most 31 characters, a
\* prefix of the bytes a set-name call passed.
C8_NameFitsBuffer ==
    (/\ last.op = "get_property"
     /\ last.num = ZX_PROP_NAME
     /\ last.handle \in DOMAIN HandleTable
     /\ "GET_PROPERTY" \in HandleTable[last.handle].rights) =>
        IF last.size < 32
        THEN last.ret = "BUFFER_TOO_SMALL"
        ELSE /\ last.ret = "OK"
             /\ userMem.kind = "cstring"
             /\ Len(userMem.val) <= 32
             /\ userMem.val[Len(userMem.val)] = 0
             /\ \E n \in BufferSizes :
                  IsPrefix(SubSeq(userMem.val, 1, Len(userMem.val) - 1),
                           UserString(n))

\* C10: set-property register-fs through a handle to a thread other than the
\* caller never changes fsbase and never succeeds; with the right and a
\* buffer of 8 bytes it is the assertion that stops it.
C10_CrossThreadFsRejected ==
    [][(/\ last = NoCall
        /\ last'.op = "set_property"
        /\ last'.num = ZX_PROP_REGISTER_FS
        /\ last'.handle \in DOMAIN HandleTable
        /\ ObjType[HandleTable[last'.handle].obj] = "Thread"
        /\ HandleTable[last'.handle].obj # SelfThread) =>
            /\ fsbase' = fsbase
            /\ last'.ret # "OK"
            /\ last'.ret = IF "SET_PROPERTY" \notin HandleTable[last'.handle].rights
                           THEN "ACCESS_DENIED"
                           ELSE IF last'.size < 8 THEN "BUFFER_TOO_SMALL"
                           ELSE "PANIC"]_vars

\* The call was made with the right, a large enough buffer and a value other
\* than the current fsbase, and the assertion stopped it.
C10_Witness ==
    /\ last.op = "set_property"
    /\ last.num = ZX_PROP_REGISTER_FS
    /\ last.handle \in DOMAIN HandleTable
    /\ HandleTable[last.handle].obj = "thr_other"
    /\ last.size >= 8
    /\ last.val # fsbase
    /\ last.ret = "PANIC"
    /\ panicked

\* C11: sys_object_signal_peer through a handle with SIGNAL_PEER: a mask with
\* a bit that is no user signal gives INVALID_ARGS and changes no signal
\* state; two legal masks make the peer's state (old \ clear) \cup set and
\* leave the state of the handle's own object, and of every other, as it was.
C11_SignalPeerValidatesThenApplies ==
    [][(/\ last = NoCall
        /\ last'.op = "signal_peer"
        /\ last'.handle \in DOMAIN HandleTable
        /\ "SIGNAL_PEER" \in HandleTable[last'.handle].rights) =>
          LET o == HandleTable[last'.handle].obj
              p == PeerOf(o)
          IN  IF /\ last'.mask \subseteq UserSignalBits
                 /\ last'.mask2 \subseteq UserSignalBits
              THEN /\ last'.ret = "OK"
                   /\ signal'[p] = (signal[p] \ last'.mask) \cup last'.mask2
                   /\ \A x \in DOMAIN signal : x # p => signal'[x] = signal[x]
              ELSE /\ last'.ret = "INVALID_ARGS"
                   /\ signal' = signal
                   /\ UNCHANGED <<regs, portq, waiter>>]_vars

\* A call that clears and sets the same user bit on the peer: the bit is set.
C11_Witness ==
    /\ last.op = "signal_peer"
    /\ last.ret = "OK"
    /\ last.mask = {"U"}
    /\ last.mask2 = {"U"}
    /\ "U" \in signal[PeerOf(HandleTable[last.handle].obj)]
    /\ "U" \notin signal[HandleTable[last.handle].obj]

\* The topics sys_object_get_info answers.
SupportedTopics == {2, 3, 7}

\* C12: sys_object_get_info with a topic other than 2, 3 and 7, in the
\* enumeration or not, fails with NOT_SUPPORTED whatever the handle, and
\* writes nothing to the caller's buffer.
C12_UnsupportedTopicNotSupported ==
    (last.op = "get_info" /\ last.num \notin SupportedTopics) =>
        (last.ret = "NOT_SUPPORTED" /\ userMem = NoWrite /\ ~panicked)

\* Topic 5, which the enumeration does not use, asked of a process handle
\* that carries INSPECT.
C12_Witness ==
    /\ last.op = "get_info"
    /\ last.num = 5
    /\ last.handle = 1
    /\ ZxInfoFrom(last.num) = "Unknown"
    /\ last.ret = "NOT_SUPPORTED"

\* The property identifiers of the interface.
KnownProperties == {ZX_PROP_NAME, ZX_PROP_REGISTER_FS, ZX_PROP_PROCESS_DEBUG_ADDR,
                    ZX_PROCESS_VDSO_BASE_ADDRESS, ZX_PROP_PROCESS_BREAK_ON_LOAD}

\* C13: sys_object_get_property and sys_object_set_property through a handle
\* with the required right and a property identifier outside {3, 4, 5, 6, 7}
\* fail with INVALID_ARGS: no panic, no user memory written, no object
\* property and no fsbase changed.
C13_UnknownPropertyInvalidArgs ==
    [][(/\ last = NoCall
        /\ last'.op \in {"get_property", "set_property"}
        /\ last'.num \notin KnownProperties
        /\ last'.handle \in DOMAIN HandleTable
        /\ RequiredRight[last'.op] \in HandleTable[last'.handle].rights) =>
            /\ last'.ret = "INVALID_ARGS"
            /\ ~panicked'
            /\ userMem' = NoWrite
            /\ UNCHANGED propstate]_vars

\* An unknown identifier was passed to set-property on a process handle
\* with SET_PROPERTY after a name had been set: the name is still there.
C13_Witness ==
    /\ last.op = "set_property"
    /\ last.num = 9
    /\ last.handle = 1
    /\ last.ret = "INVALID_ARGS"
    /\ name["proc"] # <<>>

\* C14: hal_pt_map_kernel(pt, current) sets the entries of pt at the two
\* distinct indices KERNEL_PM4 and PHYSICAL_MEMORY_PM4 to the address and
\* flags of current's entry at the same index with GLOBAL added, and leaves
\* every other entry of pt and every entry of current as it was.
C14_OnlyKernelSlotsMapped ==
    [][/\ KERNEL_PM4 # PHYSICAL_MEMORY_PM4
       /\ KERNEL_PM4 = 510
       /\ PHYSICAL_MEMORY_PM4 = 256
       /\ \A i \in PtIndices :
            pt'[i] = IF i \in {KERNEL_PM4, PHYSICAL_MEMORY_PM4}
                     THEN [addr |-> current[i].addr,
                           flags |-> current[i].flags \cup {"GLOBAL"}]
                     ELSE pt[i]
       /\ current' = current]_ptvars

\* A table with user mappings and stale entries next to the kernel slots got
\* both slots from a current table whose entries did not carry GLOBAL.
C14_Witness ==
    /\ pt # NoTable
    /\ pt \notin NewTables
    /\ pt[KERNEL_PM4 - 1].addr = 6
    /\ pt[KERNEL_PM4].addr = current[KERNEL_PM4].addr
    /\ "GLOBAL" \in pt[KERNEL_PM4].flags
    /\ "GLOBAL" \notin current[KERNEL_PM4].flags
    /\ pt[PHYSICAL_MEMORY_PM4] = [addr |-> current[PHYSICAL_MEMORY_PM4].addr,
                                  flags |-> {"GLOBAL"}]

\* C15: whatever order the frame allocator hands frames out in, a heap rescue
\* never needs more runs than its table holds: it never writes a run at
\* index MAX_RUNS (32 in the source) or beyond.
C15_RunTableSuffices ==
    /\ addr_len <= MAX_RUNS
    /\ panicWhy # "index"

\* The run the rescue extends, and whether the address va is next to it.
LastRun == addrs[addr_len - 1]
AdjacentBelow(va) == va = LastRun[1] - PAGE_SIZE
AdjacentAbove(va) == va = LastRun[1] + LastRun[2]

\* C16: in a heap rescue a frame that lies one page below or one page above
\* the current run is merged into it, and a new run is opened only for a
\* frame that is not adjacent to the current run.
C16_AdjacentFramesMerged ==
    [][\A c \in Ctx :
         (/\ pc[c] = "enlarge_heap_alloc"
          /\ pc'[c] # "enlarge_heap_alloc"
          /\ ret'[c] # None
          /\ addr_len > 0) =>
            LET va == PMEM_BASE + ret'[c]
            IN  IF AdjacentBelow(va) \/ AdjacentAbove(va)
                THEN /\ addr_len' = addr_len
                     /\ addrs'[addr_len - 1][2] = LastRun[2] + PAGE_SIZE
                     /\ ~panicked'
                ELSE addr_len' = addr_len + 1 \/ panicked']_vars

\* C17: the handle's right is checked before any other argument is
\* validated: a call through a live handle without the required right ends
\* with ACCESS_DENIED even when another argument (signal mask, options,
\* topic, buffer size, property identifier) is invalid as well.
C17_RightCheckedFirst ==
    /\ (/\ last.op \in DOMAIN RequiredRight
        /\ last.handle \in DOMAIN HandleTable
        /\ RequiredRight[last.op] \notin HandleTable[last.handle].rights) =>
            last.ret = "ACCESS_DENIED"
    /\ (/\ waiter.st = "done"
        /\ waiter.handle \in DOMAIN HandleTable
        /\ "WAIT" \notin HandleTable[waiter.handle].rights) =>
            waiter.ret = "ACCESS_DENIED"

\* The page addresses a run covers, and the window addresses of a set of
\* physical frame addresses.
RunPages(r) == {r[1] + k * PAGE_SIZE : k \in 0 .. ((r[2] \div PAGE_SIZE) - 1)}
WindowPages(t) == {p + PHYSICAL_MEMORY_OFFSET : p \in t}

RECURSIVE SumLen(_)
\* The total length of the first n runs of the table.
SumLen(n) == IF n = 0 THEN 0 ELSE addrs[n - 1][2] + SumLen(n - 1)

\* C18: throughout a heap rescue the runs of the table are whole pages,
\* pairwise disjoint, and cover exactly the window pages of the frames taken
\* so far; when the rescue completes, the arenas registered with the heap are
\* those runs, RESCUE_FRAMES (16384 in the source) pages in total.
C18_ArenasAreTheFramesTaken ==
    \A c \in Ctx :
      (/\ heapLock = c
       /\ pc[c] \in {"enlarge_heap", "enlarge_heap_alloc", "heap_retry"}
       /\ ~panicked) =>
         /\ \A i \in 0 .. (addr_len - 1) :
               /\ addrs[i][2] > 0
               /\ addrs[i][2] % PAGE_SIZE = 0
               /\ \A j \in 0 .. (addr_len - 1) :
                     i # j => RunPages(addrs[i]) \cap RunPages(addrs[j]) = {}
         /\ UNION {RunPages(addrs[i]) : i \in 0 .. (addr_len - 1)}
               = WindowPages(taken)
         /\ SumLen(addr_len) = Cardinality(taken) * PAGE_SIZE
         /\ pc[c] = "heap_retry" =>
               /\ SumLen(addr_len) = RESCUE_FRAMES * PAGE_SIZE
               /\ Runs(addrs, addr_len) \subseteq registered
               /\ Runs(addrs, addr_len) \subseteq HEAP_ALLOCATOR

\* A rescue completed with two runs, one of them grown by a merge.
C18_Witness ==
    \E c \in Ctx :
      /\ pc[c] = "heap_retry"
      /\ addr_len = 2
      /\ \E i \in 0 .. 1 : addrs[i][2] = 2 * PAGE_SIZE
      /\ Runs(addrs, addr_len) \subseteq registered

\* C20: when a heap rescue has ended, by completing or by stopping because
\* the frame allocator ran out, every frame it took from the free set is in
\* an arena registered with the heap or back in the free set.
C20_RescueLeaksNoFrame ==
    \A c \in Ctx :
      (heapLock = c /\ pc[c] \in {"heap_retry", "panic"}) =>
         \A p \in taken :
            \/ \E r \in registered : p + PHYSICAL_MEMORY_OFFSET \in RunPages(r)
            \/ (p - MEMORY_OFFSET) \div PAGE_SIZE \in FRAME_ALLOCATOR

\* Who holds which lock, by position: the frame lock is held exactly inside
\* the bodies that took it, the heap lock from GlobalAlloc::alloc to its
\* return, and a context about to take the frame lock does not hold it.
LockDiscipline ==
    /\ \A c \in Ctx :
         /\ frameLock = c <=>
               pc[c] \in {"frame_alloc", "frame_dealloc", "enlarge_heap_alloc"}
         /\ heapLock = c <=>
               pc[c] \in {"heap_alloc", "enlarge_heap", "enlarge_heap_alloc",
                          "heap_retry", "panic"}
         /\ pc[c] = "enlarge_heap" => frameLock # c
         /\ pc[c] = "idle" => frameLock # c /\ heapLock # c
    /\ frameLock = Boot <=> boot = "loop"
    /\ heapLock # Boot

\* A lock is taken only when it is free; the heap lock is never taken by a
\* context that holds the frame lock, and the frame lock is taken under the
\* heap lock only by the rescue.
LockOrder ==
    /\ \A c \in Ctx :
         /\ (heapLock # c /\ heapLock' = c) =>
               heapLock = NoOwner /\ frameLock # c /\ pc[c] = "idle"
         /\ (frameLock # c /\ frameLock' = c) =>
               /\ frameLock = NoOwner
               /\ heapLock = c => pc[c] = "enlarge_heap"
               /\ heapLock # c => pc[c] = "idle"
    /\ (frameLock # Boot /\ frameLock' = Boot) => frameLock = NoOwner

=============================================================================
